---- MODULE Spec2Model ----
(***************************************************************************)
(* Model of panda_alchemy.PandaAlchemy: a thin adapter between pandas      *)
(* DataFrames and a PostgreSQL database reached through SQLAlchemy.        *)
(*                                                                         *)
(* The database is a map from the names of the existing tables to their    *)
(* column list and rows.  Every action is one complete public method call. *)
(* The library calls the adapter delegates to (MetaData.create_all,        *)
(* DataFrame.to_sql, DataFrame.astype, pd.to_datetime, MetaData.reflect,   *)
(* TRUNCATE/DROP TABLE) are modelled by their documented behaviour with    *)
(* the arguments the adapter passes.  Table names are plain lower-case     *)
(* identifiers, so the quoted names used by SQLAlchemy and the unquoted    *)
(* names interpolated into TRUNCATE/DROP denote the same table.            *)
(***************************************************************************)
EXTENDS Integers, Sequences, FiniteSets, TLC

VARIABLES db, pre, call, ret

vars == <<db, pre, call, ret>>

(* ---------------------------- bounds ---------------------------------- *)
MaxRows == 2
MaxDfRows == 1

TableNames == {"t1", "t2"}
ColNames == {"a", "b"}
AutoNames == {"id"}
(* a row of value 1 holds strings that parse as numbers and dates, a row  *)
(* of value 2 holds strings that do not                                   *)
RowVals == {1, 2}
Parseable == {1}

(* ------------------------- type lookup tables ------------------------- *)
TYPE_PANDAS ==
  [v \in {"Float", "Integer", "BigInteger", "Boolean", "String", "DateTime"} |->
     CASE v = "Float" -> "float64"
       [] v = "Integer" -> "int32"
       [] v = "BigInteger" -> "int64"
       [] v = "Boolean" -> "bool"
       [] v = "String" -> "object"
       [] v = "DateTime" -> "datetime64[ns]"]

LogicalTypes == DOMAIN TYPE_PANDAS

(* dtype_dict values passed together with a frame: some of the           *)
(* documented names and one name outside them                             *)
DictValues == {"Float", "String", "DateTime", "Decimal"}

(* every documented name and one name outside them                        *)
AllDictValues == LogicalTypes \cup {"Decimal"}

(* ------------------------------ helpers ------------------------------- *)
Range(s) == {s[i] : i \in 1..Len(s)}

SeqsUpTo(S, n) == UNION {[1..k -> S] : k \in 0..n}

Injective(s) == \A i, j \in 1..Len(s) : s[i] = s[j] => i = j

(* a dict[str, str] in insertion order: a sequence of distinct keys       *)
DictsOver(vals, n) ==
  {d \in SeqsUpTo([k : ColNames, v : vals], n) :
     Injective([i \in 1..Len(d) |-> d[i].k])}

DictKeys(d) == [i \in 1..Len(d) |-> d[i].k]

NoCall == [op |-> "none", name |-> "", err |-> "none", hasDict |-> FALSE,
           dtype_dict |-> <<>>, autoincrement |-> FALSE,
           autoincrement_name |-> "", dfcols |-> <<>>, dfrows |-> <<>>,
           hasParseDates |-> FALSE, parse_dates |-> <<>>]

(* dtypes of the columns of the frames the callers pass                   *)
DfDtypes == {"object"}

(* a DataFrame: ordered columns with their dtype, and rows                *)
FramesOver(n) ==
  {[cols |-> c, rows |-> r] :
     c \in {x \in SeqsUpTo([name : ColNames, dtype : DfDtypes], n) :
              Len(x) >= 1 /\ Injective([i \in 1..Len(x) |-> x[i].name])},
     r \in SeqsUpTo(RowVals, MaxDfRows)}

DfColNames(df) == {df.cols[i].name : i \in 1..Len(df.cols)}

(* ----------------------- _convert_dataframe_dtype --------------------- *)
(* DataFrame.astype / pd.to_datetime on one column                        *)
CastOk(src, dst, rows) ==
  src = dst \/ dst = "object" \/ \A i \in 1..Len(rows) : rows[i] \in Parseable

(* df_src.astype(dtype_except_dt), then pd.to_datetime column by column   *)
ConvertColumns(df_src, dtype_dict) ==
  LET n == Len(dtype_dict)
      notDt == {i \in 1..n : dtype_dict[i].v # "DateTime"}
      isDt == {i \in 1..n : dtype_dict[i].v = "DateTime"}
      srcOf(k) == (CHOOSE i \in 1..Len(df_src.cols) : df_src.cols[i].name = k)
      bad(I) == \E i \in I :
                  ~CastOk(df_src.cols[srcOf(dtype_dict[i].k)].dtype,
                          TYPE_PANDAS[dtype_dict[i].v], df_src.rows)
      target(c) ==
        IF \E i \in 1..n : dtype_dict[i].k = c.name
        THEN LET i == CHOOSE j \in 1..n : dtype_dict[j].k = c.name
             IN  [name |-> c.name, dtype |-> TYPE_PANDAS[dtype_dict[i].v]]
        ELSE c
  IN  IF \E i \in notDt : dtype_dict[i].k \notin DfColNames(df_src)
      THEN [err |-> "KeyError", df |-> df_src]
      ELSE IF bad(notDt)
      THEN [err |-> "TypeCoercionError", df |-> df_src]
      ELSE IF \E i \in isDt : dtype_dict[i].k \notin DfColNames(df_src)
      THEN [err |-> "KeyError", df |-> df_src]
      ELSE IF bad(isDt)
      THEN [err |-> "TypeCoercionError", df |-> df_src]
      ELSE [err |-> "none",
            df |-> [df_src EXCEPT
                      !.cols = [i \in 1..Len(df_src.cols) |-> target(df_src.cols[i])]]]

(* variant: values without a pandas dtype are skipped, as the column-type  *)
(* lookup skips them                                                      *)
_convert_dataframe_dtype_skip(df_src, dtype_dict) ==
  ConvertColumns(df_src, SelectSeq(dtype_dict, LAMBDA e : e.v \in DOMAIN TYPE_PANDAS))

_convert_dataframe_dtype(df_src, dtype_dict) ==
  IF \E i \in 1..Len(dtype_dict) :
       dtype_dict[i].v # "DateTime" /\ dtype_dict[i].v \notin DOMAIN TYPE_PANDAS
  THEN [err |-> "KeyError", df |-> df_src]
  ELSE ConvertColumns(df_src, dtype_dict)

(* ------------------------ _make_sqlalchemy_dtype ---------------------- *)
SqlalchemyType(v) ==
  CASE v = "Float" -> "Float"
    [] v = "Integer" -> "Integer"
    [] v = "BigInteger" -> "BigInteger"
    [] v = "Boolean" -> "Boolean"
    [] v = "String" -> "String"
    [] v = "DateTime" -> "DateTime"

RECURSIVE _make_sqlalchemy_dtype(_)
_make_sqlalchemy_dtype(dtype_dict) ==
  IF dtype_dict = <<>> THEN <<>>
  ELSE LET e == Head(dtype_dict)
           rest == _make_sqlalchemy_dtype(Tail(dtype_dict))
       IN  IF e.v \in {"Float", "Integer", "BigInteger", "Boolean", "String", "DateTime"}
           THEN <<[k |-> e.k, t |-> SqlalchemyType(e.v)]>> \o rest
           ELSE rest

(* ---------------------------- _convert_types -------------------------- *)
_convert_types(df_src, hasDict, dtype_dict) ==
  IF hasDict
  THEN LET c == _convert_dataframe_dtype(df_src, dtype_dict)
       IN  IF c.err # "none"
           THEN [err |-> c.err, df |-> df_src, hasDtype |-> FALSE, dtype |-> <<>>]
           ELSE [err |-> "none", df |-> c.df, hasDtype |-> TRUE,
                 dtype |-> _make_sqlalchemy_dtype(dtype_dict)]
  ELSE [err |-> "none", df |-> df_src, hasDtype |-> FALSE, dtype |-> <<>>]

(* ------------------------- DataFrame.to_sql --------------------------- *)
(* column type pandas infers from a dtype when no dtype entry names it    *)
InferredType(dtype) ==
  CASE dtype = "float64" -> "Float"
    [] dtype = "int32" -> "Integer"
    [] dtype = "int64" -> "BigInteger"
    [] dtype = "bool" -> "Boolean"
    [] dtype = "datetime64[ns]" -> "DateTime"
    [] OTHER -> "Text"

(* whether the database accepts values of a dtype in a column of a type   *)
TypeFits(dtype, t) ==
  CASE dtype = "float64" -> t \in {"Float"}
    [] dtype \in {"int32", "int64"} -> t \in {"Integer", "BigInteger", "Float"}
    [] dtype = "bool" -> t \in {"Boolean"}
    [] dtype = "datetime64[ns]" -> t \in {"DateTime"}
    [] OTHER -> t \in {"String", "Text"}

ToSqlColumns(df, hasDtype, dtype) ==
  [i \in 1..Len(df.cols) |->
     LET c == df.cols[i]
     IN  [name |-> c.name,
          type |-> IF hasDtype /\ \E j \in 1..Len(dtype) : dtype[j].k = c.name
                   THEN dtype[CHOOSE j \in 1..Len(dtype) : dtype[j].k = c.name].t
                   ELSE InferredType(c.dtype),
          pk |-> FALSE]]

(* INSERT of the frame's rows into an existing table                      *)
InsertError(df, table) ==
  IF \E i \in 1..Len(df.cols) :
       \A j \in 1..Len(table.cols) : table.cols[j].name # df.cols[i].name
  THEN "UndefinedColumn"
  ELSE IF \E i \in 1..Len(df.cols) : \E j \in 1..Len(table.cols) :
            /\ table.cols[j].name = df.cols[i].name
            /\ ~TypeFits(df.cols[i].dtype, table.cols[j].type)
  THEN "TypeMismatchError"
  ELSE "none"

Put(d, name, table) ==
  [n \in DOMAIN d \cup {name} |-> IF n = name THEN table ELSE d[n]]

(* variant: appending to a table that does not exist is refused          *)
to_sql_needs_table(d, df, name, if_exists, hasDtype, dtype) ==
  IF name \in DOMAIN d
  THEN IF if_exists = "fail"
       THEN [err |-> "TableExistsError", db |-> d]
       ELSE IF InsertError(df, d[name]) # "none"
       THEN [err |-> InsertError(df, d[name]), db |-> d]
       ELSE [err |-> "none",
             db |-> [d EXCEPT ![name].rows = d[name].rows \o df.rows]]
  ELSE IF if_exists = "append"
  THEN [err |-> "TableNotFoundError", db |-> d]
  ELSE [err |-> "none",
        db |-> Put(d, name, [cols |-> ToSqlColumns(df, hasDtype, dtype),
                             rows |-> df.rows])]

(* variant: the frame's rows take the place of the rows of the table       *)
to_sql_replace_rows(d, df, name, if_exists, hasDtype, dtype) ==
  IF name \in DOMAIN d
  THEN IF if_exists = "fail"
       THEN [err |-> "TableExistsError", db |-> d]
       ELSE IF InsertError(df, d[name]) # "none"
       THEN [err |-> InsertError(df, d[name]), db |-> d]
       ELSE [err |-> "none", db |-> [d EXCEPT ![name].rows = df.rows]]
  ELSE [err |-> "none",
        db |-> Put(d, name, [cols |-> ToSqlColumns(df, hasDtype, dtype),
                             rows |-> df.rows])]

to_sql(d, df, name, if_exists, hasDtype, dtype) ==
  IF name \in DOMAIN d
  THEN IF if_exists = "fail"
       THEN [err |-> "TableExistsError", db |-> d]
       ELSE IF InsertError(df, d[name]) # "none"
       THEN [err |-> InsertError(df, d[name]), db |-> d]
       ELSE [err |-> "none",
             db |-> [d EXCEPT ![name].rows = d[name].rows \o df.rows]]
  ELSE [err |-> "none",
        db |-> Put(d, name, [cols |-> ToSqlColumns(df, hasDtype, dtype),
                             rows |-> df.rows])]

(* ----------------------- truncate_table / drop_table ------------------ *)
(* variant: the statement removes the table, not only its rows           *)
truncate_table_drops(d, table_name) ==
  IF table_name \in DOMAIN d
  THEN [err |-> "none", db |-> [n \in DOMAIN d \ {table_name} |-> d[n]]]
  ELSE [err |-> "TableNotFoundError", db |-> d]

truncate_table(d, table_name) ==
  IF table_name \in DOMAIN d
  THEN [err |-> "none", db |-> [d EXCEPT ![table_name].rows = <<>>]]
  ELSE [err |-> "TableNotFoundError", db |-> d]

drop_table(d, table_name) ==
  IF table_name \in DOMAIN d
  THEN [err |-> "none", db |-> [n \in DOMAIN d \ {table_name} |-> d[n]]]
  ELSE [err |-> "TableNotFoundError", db |-> d]

(* ------------------- get_table_dict / check_table_existence ----------- *)
get_table_dict(d) == [n \in DOMAIN d |-> d[n].cols]

(* variant: the name is looked up among the reflected tables, not among  *)
(* their names                                                            *)
check_table_existence_values(d, table_name) ==
  IF table_name \in {get_table_dict(d)[n] : n \in DOMAIN get_table_dict(d)}
  THEN TRUE ELSE FALSE

check_table_existence(d, table_name) ==
  IF table_name \in DOMAIN get_table_dict(d) THEN TRUE ELSE FALSE

(* --------------------- create_table_from_dtype_dict ------------------- *)
RECURSIVE DictColumns(_)
DictColumns(dtype_dict) ==
  IF dtype_dict = <<>> THEN <<>>
  ELSE LET e == Head(dtype_dict)
           rest == DictColumns(Tail(dtype_dict))
       IN  IF e.v \in {"Float", "Integer", "BigInteger", "Boolean", "String", "DateTime"}
           THEN <<[name |-> e.k, type |-> SqlalchemyType(e.v), pk |-> FALSE]>> \o rest
           ELSE rest

(* variant: the key column is added after the dtype_dict columns          *)
column_list_key_last(dtype_dict, autoincrement, autoincrement_name) ==
  DictColumns(dtype_dict) \o
  (IF autoincrement
   THEN <<[name |-> autoincrement_name, type |-> "Integer", pk |-> TRUE]>>
   ELSE <<>>)

column_list(dtype_dict, autoincrement, autoincrement_name) ==
  (IF autoincrement
   THEN <<[name |-> autoincrement_name, type |-> "Integer", pk |-> TRUE]>>
   ELSE <<>>) \o DictColumns(dtype_dict)

(* MetaData.create_all(engine): checkfirst defaults to True, so a table    *)
(* that is already present is skipped and nothing is raised               *)
create_all(d, table_name, columns) ==
  IF table_name \in DOMAIN d
  THEN [err |-> "none", db |-> d]
  ELSE [err |-> "none", db |-> Put(d, table_name, [cols |-> columns, rows |-> <<>>])]

create_table_from_dtype_dict(d, table_name, dtype_dict, autoincrement, autoincrement_name) ==
  create_all(d, table_name, column_list(dtype_dict, autoincrement, autoincrement_name))

(* ------------------------- create_table_from_df ----------------------- *)
(* variant: the rows written by to_sql are not removed                    *)
create_table_from_df_keeps_rows(d, df, table_name, hasDict, dtype_dict) ==
  LET c == _convert_types(df, hasDict, dtype_dict)
  IN  IF c.err # "none" THEN [err |-> c.err, db |-> d]
      ELSE to_sql(d, c.df, table_name, "fail", c.hasDtype, c.dtype)

(* variant: the table is emptied before to_sql is tried                    *)
create_table_from_df_truncates_first(d, df, table_name, hasDict, dtype_dict) ==
  LET c == _convert_types(df, hasDict, dtype_dict)
  IN  IF c.err # "none" THEN [err |-> c.err, db |-> d]
      ELSE LET t == truncate_table(d, table_name)
               w == to_sql(t.db, c.df, table_name, "fail", c.hasDtype, c.dtype)
           IN  IF w.err # "none" THEN w
               ELSE truncate_table(w.db, table_name)

create_table_from_df(d, df, table_name, hasDict, dtype_dict) ==
  LET c == _convert_types(df, hasDict, dtype_dict)
  IN  IF c.err # "none" THEN [err |-> c.err, db |-> d]
      ELSE LET w == to_sql(d, c.df, table_name, "fail", c.hasDtype, c.dtype)
           IN  IF w.err # "none" THEN w
               ELSE truncate_table(w.db, table_name)

(* ---------------------------- insert_from_df -------------------------- *)
insert_from_df(d, df, table_name, hasDict, dtype_dict) ==
  LET c == _convert_types(df, hasDict, dtype_dict)
  IN  IF c.err # "none" THEN [err |-> c.err, db |-> d]
      ELSE to_sql(d, c.df, table_name, "append", c.hasDtype, c.dtype)

(* ---------------------------- read_sql_query -------------------------- *)
RECURSIVE DtypeExceptDt(_)
DtypeExceptDt(dtype_dict) ==
  IF dtype_dict = <<>> THEN <<>>
  ELSE LET e == Head(dtype_dict)
       IN  IF e.v # "DateTime"
           THEN <<[k |-> e.k, dtype |-> TYPE_PANDAS[e.v]]>> \o DtypeExceptDt(Tail(dtype_dict))
           ELSE DtypeExceptDt(Tail(dtype_dict))

RECURSIVE DateTimeKeys(_)
DateTimeKeys(dtype_dict) ==
  IF dtype_dict = <<>> THEN <<>>
  ELSE LET e == Head(dtype_dict)
       IN  IF e.v = "DateTime"
           THEN <<e.k>> \o DateTimeKeys(Tail(dtype_dict))
           ELSE DateTimeKeys(Tail(dtype_dict))

(* variant: the caller's parse_dates is kept when the dtype_dict has no   *)
(* DateTime entry                                                         *)
read_sql_query_keeps_parse_dates(hasParseDates, parse_dates, hasDict, dtype_dict) ==
  IF hasDict
  THEN IF \E i \in 1..Len(dtype_dict) :
            dtype_dict[i].v # "DateTime" /\ dtype_dict[i].v \notin DOMAIN TYPE_PANDAS
       THEN [err |-> "KeyError", hasDtype |-> FALSE, dtype |-> <<>>,
             hasParseDates |-> FALSE, parse_dates |-> <<>>]
       ELSE IF DateTimeKeys(dtype_dict) = <<>>
       THEN [err |-> "none", hasDtype |-> TRUE, dtype |-> DtypeExceptDt(dtype_dict),
             hasParseDates |-> hasParseDates, parse_dates |-> parse_dates]
       ELSE [err |-> "none", hasDtype |-> TRUE, dtype |-> DtypeExceptDt(dtype_dict),
             hasParseDates |-> TRUE, parse_dates |-> DateTimeKeys(dtype_dict)]
  ELSE [err |-> "none", hasDtype |-> FALSE, dtype |-> <<>>,
        hasParseDates |-> hasParseDates, parse_dates |-> parse_dates]

(* the arguments pd.read_sql_query receives, or the KeyError of the lookup *)
read_sql_query(hasParseDates, parse_dates, hasDict, dtype_dict) ==
  IF hasDict
  THEN IF \E i \in 1..Len(dtype_dict) :
            dtype_dict[i].v # "DateTime" /\ dtype_dict[i].v \notin DOMAIN TYPE_PANDAS
       THEN [err |-> "KeyError", hasDtype |-> FALSE, dtype |-> <<>>,
             hasParseDates |-> FALSE, parse_dates |-> <<>>]
       ELSE [err |-> "none", hasDtype |-> TRUE, dtype |-> DtypeExceptDt(dtype_dict),
             hasParseDates |-> TRUE, parse_dates |-> DateTimeKeys(dtype_dict)]
  ELSE [err |-> "none", hasDtype |-> FALSE, dtype |-> <<>>,
        hasParseDates |-> hasParseDates, parse_dates |-> parse_dates]

(* ============================== actions =============================== *)
(* One step is one complete call of a public method by the caller, who     *)
(* then reads the outcome (Return) before the next call.  `pre` is the     *)
(* database as it was when the call was made.                             *)
MainNames == {"t1"}
MainDicts == DictsOver(DictValues, Cardinality(ColNames))
SchemaDicts == DictsOver(AllDictValues, Cardinality(ColNames))
MainFrames == FramesOver(Cardinality(ColNames))
SmallDicts == DictsOver({"String"}, 1)
SmallFrames == FramesOver(1)

Init ==
  /\ db = <<>>
  /\ pre = <<>>
  /\ call = NoCall
  /\ ret = "None"

RowsOf(d, n) == IF n \in DOMAIN d THEN Len(d[n].rows) ELSE 0

CreateTableFromDtypeDict(Names, Dicts) ==
  /\ call.op = "none"
  /\ \E n \in Names, dd \in Dicts, ai \in BOOLEAN, an \in AutoNames :
       LET r == create_table_from_dtype_dict(db, n, dd, ai, an)
       IN  /\ db' = r.db
           /\ call' = [NoCall EXCEPT !.op = "create_table_from_dtype_dict", !.name = n,
                         !.err = r.err, !.hasDict = TRUE, !.dtype_dict = dd,
                         !.autoincrement = ai, !.autoincrement_name = an]
  /\ pre' = db
  /\ ret' = "None"

CreateTableFromDf(Names, Frames, Dicts) ==
  /\ call.op = "none"
  /\ \E n \in Names, df \in Frames, hd \in BOOLEAN, dd \in Dicts :
       /\ ~hd => dd = <<>>
       /\ LET r == create_table_from_df(db, df, n, hd, dd)
          IN  /\ db' = r.db
              /\ call' = [NoCall EXCEPT !.op = "create_table_from_df", !.name = n,
                            !.err = r.err, !.hasDict = hd, !.dtype_dict = dd,
                            !.dfcols = df.cols, !.dfrows = df.rows]
  /\ pre' = db
  /\ ret' = "None"

InsertFromDf(Names, Frames, Dicts) ==
  /\ call.op = "none"
  /\ \E n \in Names, df \in Frames, hd \in BOOLEAN, dd \in Dicts :
       /\ ~hd => dd = <<>>
       /\ RowsOf(db, n) + Len(df.rows) <= MaxRows
       /\ LET r == insert_from_df(db, df, n, hd, dd)
          IN  /\ db' = r.db
              /\ call' = [NoCall EXCEPT !.op = "insert_from_df", !.name = n,
                            !.err = r.err, !.hasDict = hd, !.dtype_dict = dd,
                            !.dfcols = df.cols, !.dfrows = df.rows]
  /\ pre' = db
  /\ ret' = "None"

TruncateTable(Names) ==
  /\ call.op = "none"
  /\ \E n \in Names :
       LET r == truncate_table(db, n)
       IN  /\ db' = r.db
           /\ call' = [NoCall EXCEPT !.op = "truncate_table", !.name = n, !.err = r.err]
  /\ pre' = db
  /\ ret' = "None"

DropTable(Names) ==
  /\ call.op = "none"
  /\ \E n \in Names :
       LET r == drop_table(db, n)
       IN  /\ db' = r.db
           /\ call' = [NoCall EXCEPT !.op = "drop_table", !.name = n, !.err = r.err]
  /\ pre' = db
  /\ ret' = "None"

GetTableDict ==
  /\ call.op = "none"
  /\ call' = [NoCall EXCEPT !.op = "get_table_dict"]
  /\ ret' = get_table_dict(db)
  /\ pre' = db
  /\ UNCHANGED db

CheckTableExistence(Names) ==
  /\ call.op = "none"
  /\ \E n \in Names :
       /\ call' = [NoCall EXCEPT !.op = "check_table_existence", !.name = n]
       /\ ret' = check_table_existence(db, n)
  /\ pre' = db
  /\ UNCHANGED db

(* the caller has the outcome; the adapter keeps nothing of the call      *)
Return ==
  /\ call.op # "none"
  /\ call' = NoCall
  /\ ret' = "None"
  /\ pre' = db
  /\ UNCHANGED db

(* one table, every documented way of calling the methods                 *)
Next ==
  \/ CreateTableFromDtypeDict(MainNames, SchemaDicts)
  \/ CreateTableFromDf(MainNames, MainFrames, MainDicts)
  \/ InsertFromDf(MainNames, MainFrames, MainDicts)
  \/ TruncateTable(MainNames)
  \/ DropTable(MainNames)
  \/ GetTableDict
  \/ CheckTableExistence(MainNames)
  \/ Return

Spec == Init /\ [][Next]_vars

(* two tables side by side, single-column frames and dicts                *)
NextTables ==
  \/ CreateTableFromDtypeDict(TableNames, SmallDicts)
  \/ CreateTableFromDf(TableNames, SmallFrames, SmallDicts)
  \/ InsertFromDf(TableNames, SmallFrames, SmallDicts)
  \/ TruncateTable(TableNames)
  \/ DropTable(TableNames)
  \/ GetTableDict
  \/ CheckTableExistence(TableNames)
  \/ Return

SpecTables == Init /\ [][NextTables]_vars

(* ------------- the hints read_sql_query hands to the reader ----------- *)
ParseDatesInputs == {x \in SeqsUpTo(ColNames, Cardinality(ColNames)) : Injective(x)}

ReadSqlQuery ==
  /\ call.op = "none"
  /\ \E hp \in BOOLEAN, pd \in ParseDatesInputs, hd \in BOOLEAN,
        dd \in DictsOver(AllDictValues, Cardinality(ColNames)) :
       /\ ~hp => pd = <<>>
       /\ ~hd => dd = <<>>
       /\ call' = [NoCall EXCEPT !.op = "read_sql_query", !.hasDict = hd,
                     !.dtype_dict = dd, !.hasParseDates = hp, !.parse_dates = pd]
       /\ ret' = read_sql_query(hp, pd, hd, dd)
  /\ pre' = db
  /\ UNCHANGED db

NextQuery ==
  \/ ReadSqlQuery
  \/ Return

SpecQuery == Init /\ [][NextQuery]_vars

(* ============================ properties ============================== *)
NamesOf(cols) == [i \in 1..Len(cols) |-> cols[i].name]

IsRecognised(e) == e.v \in LogicalTypes

HasUnknown(dtype_dict) ==
  \E i \in 1..Len(dtype_dict) : dtype_dict[i].v \notin LogicalTypes

ConversionErrors == {"KeyError", "TypeCoercionError"}

(* C1: a second create_table_from_dtype_dict on a name that is already a   *)
(* table fails with TableExistsError and leaves the table as it was.      *)
C1_SecondCreateFails ==
  (call.op = "create_table_from_dtype_dict" /\ call.name \in DOMAIN pre)
    => (call.err = "TableExistsError" /\ db = pre)

(* C2 as stated: insert_from_df on a name that is no table fails with     *)
(* TableNotFoundError (when the frame converts) and creates no table.     *)
C2_AppendRequiresTable ==
  (call.op = "insert_from_df" /\ call.name \notin DOMAIN pre
     /\ call.err \notin ConversionErrors)
    => (call.err = "TableNotFoundError" /\ call.name \notin DOMAIN db)

(* C2 amended: insert_from_df on a name that is no table never fails with *)
(* TableNotFoundError; unless the conversion of the frame fails, it       *)
(* creates the table with one column per column of the frame, holding     *)
(* exactly the frame's rows.                                              *)
C2_AppendCreatesTable ==
  (call.op = "insert_from_df" /\ call.name \notin DOMAIN pre)
    => /\ call.err \in {"none"} \cup ConversionErrors
       /\ ~call.hasDict => call.err = "none"
       /\ call.err # "none" => db = pre
       /\ call.err = "none" =>
            /\ call.name \in DOMAIN db
            /\ NamesOf(db[call.name].cols) = NamesOf(call.dfcols)
            /\ db[call.name].rows = call.dfrows
            /\ \A n \in DOMAIN pre : n \in DOMAIN db /\ db[n] = pre[n]

C2_Witness ==
  /\ call.op = "insert_from_df"
  /\ call.name \notin DOMAIN pre
  /\ call.err = "none"
  /\ call.name \in DOMAIN db
  /\ Len(db[call.name].rows) >= 1

(* C3: check_table_existence(n) returns true exactly when n is a table of *)
(* the database at the time of the call; after a successful create the    *)
(* table is present, after a successful drop it is absent, and truncate   *)
(* keeps it present.                                                      *)
C3_ExistsIsLive ==
  /\ call.op = "check_table_existence" => (ret = (call.name \in DOMAIN db))
  /\ (call.op \in {"create_table_from_dtype_dict", "create_table_from_df",
                   "truncate_table"} /\ call.err = "none")
       => call.name \in DOMAIN db
  /\ (call.op = "drop_table" /\ call.err = "none")
       => (call.name \in DOMAIN pre /\ call.name \notin DOMAIN db)

C3_Witness ==
  /\ call.op = "check_table_existence"
  /\ ret = TRUE
  /\ \E n \in TableNames : n # call.name /\ n \notin DOMAIN db

(* C4: a successful insert_from_df into an existing table with r rows     *)
(* leaves it with r + len(frame) rows, the r old rows first and unchanged, *)
(* and with the same columns, with or without a dtype_dict.               *)
C4_AppendAddsRows ==
  (call.op = "insert_from_df" /\ call.err = "none" /\ call.name \in DOMAIN pre)
    => /\ call.name \in DOMAIN db
       /\ Len(db[call.name].rows) = Len(pre[call.name].rows) + Len(call.dfrows)
       /\ SubSeq(db[call.name].rows, 1, Len(pre[call.name].rows)) = pre[call.name].rows
       /\ db[call.name].cols = pre[call.name].cols

C4_Witness ==
  /\ call.op = "insert_from_df"
  /\ call.err = "none"
  /\ call.hasDict
  /\ call.name \in DOMAIN pre
  /\ Len(pre[call.name].rows) >= 1
  /\ Len(call.dfrows) >= 1

(* C5: truncate_table(n) on an existing table keeps the table and its     *)
(* columns (get_table_dict()[n]), leaves it with no rows and changes no   *)
(* other table; on an absent table it fails with TableNotFoundError.      *)
C5_TruncateKeepsSchema ==
  call.op = "truncate_table"
    => IF call.name \in DOMAIN pre
       THEN /\ call.err = "none"
            /\ DOMAIN db = DOMAIN pre
            /\ get_table_dict(db)[call.name] = get_table_dict(pre)[call.name]
            /\ db[call.name].rows = <<>>
            /\ \A n \in DOMAIN pre \ {call.name} : db[n] = pre[n]
       ELSE call.err = "TableNotFoundError" /\ db = pre

C5_Witness ==
  /\ call.op = "truncate_table"
  /\ call.err = "none"
  /\ call.name \in DOMAIN pre
  /\ Len(pre[call.name].rows) >= 1
  /\ \E n \in DOMAIN pre : n # call.name /\ Len(pre[n].rows) >= 1

(* C6: a successful create_table_from_df on a free name leaves a table    *)
(* with one column per column of the frame, in order, and no rows.        *)
C6_SampleLeavesEmptyTable ==
  (call.op = "create_table_from_df" /\ call.name \notin DOMAIN pre /\ call.err = "none")
    => /\ call.name \in DOMAIN db
       /\ NamesOf(db[call.name].cols) = NamesOf(call.dfcols)
       /\ db[call.name].rows = <<>>

C6_Witness ==
  /\ call.op = "create_table_from_df"
  /\ call.name \notin DOMAIN pre
  /\ call.err = "none"
  /\ Len(call.dfrows) >= 1
  /\ Len(call.dfcols) >= 2

C9_QueryHints ==
  (call.op = "read_sql_query" /\ ret.err = "none")
    => IF call.hasDict
       THEN LET nonDt == SelectSeq(call.dtype_dict, LAMBDA e : e.v # "DateTime")
                dt == SelectSeq(call.dtype_dict, LAMBDA e : e.v = "DateTime")
            IN  /\ ret.hasDtype
                /\ Len(ret.dtype) = Len(nonDt)
                /\ \A i \in 1..Len(nonDt) :
                     ret.dtype[i] = [k |-> nonDt[i].k, dtype |-> TYPE_PANDAS[nonDt[i].v]]
                /\ ret.hasParseDates
                /\ ret.parse_dates = DictKeys(dt)
                /\ Range(ret.parse_dates) \cap {ret.dtype[i].k : i \in 1..Len(ret.dtype)} = {}
                /\ Range(ret.parse_dates) \cup {ret.dtype[i].k : i \in 1..Len(ret.dtype)}
                     = Range(DictKeys(call.dtype_dict))
       ELSE /\ ~ret.hasDtype
            /\ ret.hasParseDates = call.hasParseDates
            /\ ret.parse_dates = call.parse_dates

C9_Witness ==
  /\ call.op = "read_sql_query"
  /\ ret.err = "none"
  /\ call.hasDict
  /\ Len(call.dtype_dict) = 2
  /\ \A i \in 1..Len(call.dtype_dict) : call.dtype_dict[i].v # "DateTime"
  /\ call.hasParseDates
  /\ call.parse_dates # <<>>
  /\ ret.parse_dates = <<>>

(* C10 as stated: insert_from_df and create_table_from_df given a         *)
(* dtype_dict with a value outside the six names (and keys that are all   *)
(* columns of the frame) do not fail on that entry.                       *)
C10_UnknownTypeAccepted ==
  (call.op \in {"insert_from_df", "create_table_from_df"} /\ call.hasDict
     /\ HasUnknown(call.dtype_dict)
     /\ Range(DictKeys(call.dtype_dict)) \subseteq Range(NamesOf(call.dfcols)))
    => call.err # "KeyError"

(* C10 amended: insert_from_df and create_table_from_df given such a      *)
(* dtype_dict fail with KeyError and leave the database untouched, while  *)
(* create_table_from_dtype_dict given the same dtype_dict does not fail.  *)
C10_UnknownTypeRejectedByConversion ==
  /\ (call.op \in {"insert_from_df", "create_table_from_df"} /\ call.hasDict
        /\ HasUnknown(call.dtype_dict))
       => (call.err = "KeyError" /\ db = pre)
  /\ (call.op = "create_table_from_dtype_dict" /\ HasUnknown(call.dtype_dict))
       => (call.err = "none" /\ call.name \in DOMAIN db)

C10_Witness ==
  /\ call.op = "insert_from_df"
  /\ call.hasDict
  /\ HasUnknown(call.dtype_dict)
  /\ Range(DictKeys(call.dtype_dict)) \subseteq Range(NamesOf(call.dfcols))
  /\ call.name \in DOMAIN pre
  /\ call.err = "KeyError"

====
